---- MODULE Spec2Model ----
(* Model of the Tavily AI-SDK tools (search, extract, crawl, map): the     *)
(* construction-time options, the per-call input, the request body built   *)
(* by execute, the single HTTP round trip and the thrown/returned outcome. *)
EXTENDS Integers, Sequences, FiniteSets, TLC

(***************************************************************************)
(* Bounds of the model.                                                    *)
(***************************************************************************)
\* at most this many construction-time options are passed by the developer
MaxCfgSet == 1
\* at most this many optional input fields are supplied by the agent
MaxInputSet == 1
\* longest domain / path list the developer or the agent supplies
MaxListLen == 1

(***************************************************************************)
(* JavaScript values: undefined, strings, numbers, booleans, arrays.       *)
(***************************************************************************)
Undef == [undef |-> TRUE]
Str(s) == [str |-> s]
Num(n) == [num |-> n]
Bool(b) == [bool |-> b]
List(l) == [list |-> l]

IsStr(v) == DOMAIN v = {"str"}
IsNum(v) == DOMAIN v = {"num"}
IsBool(v) == DOMAIN v = {"bool"}
IsList(v) == DOMAIN v = {"list"}

\* if (x !== undefined) written for if (x): the empty string passes the test
TruthyDefined(v) ==
  CASE v = Undef -> FALSE
    [] DOMAIN v = {"num"} -> v.num # 0
    [] DOMAIN v = {"bool"} -> v.bool
    [] OTHER -> TRUE

\* JavaScript truthiness, the test of `if (x)` and of `a || b`
Truthy(v) ==
  CASE v = Undef -> FALSE
    [] IsStr(v) -> v.str # ""
    [] IsNum(v) -> v.num # 0
    [] IsBool(v) -> v.bool
    [] OTHER -> TRUE

\* a || b written where a ?? b was meant
NullishAsOr(a, b) ==
  IF a # Undef /\ a # Bool(FALSE) /\ a # Str("") /\ a # Num(0) THEN a ELSE b

\* a ?? b
Nullish(a, b) == IF a # Undef THEN a ELSE b

\* b || a: the operands of the fallback swapped
OrElseSwapped(a, b) ==
  IF b # Undef /\ b # Str("") THEN b ELSE a

\* a || b
OrElse(a, b) == IF Truthy(a) THEN a ELSE b

\* the emptiness test forgotten: any array passes
AnyList(v) == v # Undef /\ DOMAIN v = {"list"}

\* x && x.length > 0
NonEmptyList(v) == Truthy(v) /\ IsList(v) /\ Len(v.list) > 0

\* the destructuring default left out: an unset option stays undefined
DefaultDropped(v, d) == v

\* a destructuring default: `name = d` takes d when the option is undefined
Default(v, d) == IF v = Undef THEN d ELSE v

(***************************************************************************)
(* Objects (request bodies, option bags) are functions from keys to values.*)
(***************************************************************************)
EmptyObj == [k \in {} |-> Undef]

Put(obj, key, v) ==
  [k \in DOMAIN obj \cup {key} |-> IF k = key THEN v ELSE obj[k]]

\* the `!== undefined` test left out: a failed condition writes false
PutIfCoerced(cond, obj, key, v) ==
  Put(obj, key, IF cond THEN v ELSE Bool(FALSE))

PutIf(cond, obj, key, v) == IF cond THEN Put(obj, key, v) ELSE obj

\* obj.key, undefined when the key is missing
Get(obj, key) == IF key \in DOMAIN obj THEN obj[key] ELSE Undef

\* JSON.stringify of an object drops the keys whose value is undefined
JsonBody(obj) ==
  [k \in {x \in DOMAIN obj : obj[x] # Undef} |-> obj[k]]

(***************************************************************************)
(* The tool definitions of the repository.  "search", "extract", "crawl"   *)
(* and "map" post the request themselves; "crawlAgent" is the crawl tool   *)
(* that takes every crawl parameter from the call; "crawlCore" and         *)
(* "mapCore" are the crawl and map tools that hand the merged options to   *)
(* the @tavily/core client.                                                *)
(***************************************************************************)
FetchTools == {"search", "extract", "crawl", "map", "crawlAgent"}
CoreTools == {"crawlCore", "mapCore"}
Tools == FetchTools \cup CoreTools

\* the action verb of the tool kind, as written in its failure prefix
Verb(t) ==
  CASE t = "search" -> "search"
    [] t = "extract" -> "extract"
    [] t \in {"map", "mapCore"} -> "map"
    [] OTHER -> "crawl"

\* the endpoint the tool posts to
Endpoint(t) ==
  CASE t = "search" -> "https://api.tavily.com/search"
    [] t = "extract" -> "https://api.tavily.com/extract"
    [] t = "map" -> "https://api.tavily.com/map"
    [] OTHER -> "https://api.tavily.com/crawl"

\* the options each tool constructor accepts
OptionFields(t) ==
  CASE t = "search" ->
         {"apiKey", "searchDepth", "topic", "includeImages", "includeAnswer",
          "maxResults", "includeImageDescriptions", "includeRawContent",
          "includeDomains", "excludeDomains", "timeRange", "country",
          "chunksPerSource", "startDate", "endDate", "autoParameters",
          "maxTokens", "includeFavicon", "timeout", "days"}
    [] t = "extract" ->
         {"apiKey", "includeImages", "includeFavicon", "extractDepth",
          "format", "timeout"}
    [] t = "crawl" ->
         {"apiKey", "maxDepth", "maxBreadth", "limit", "extractDepth",
          "format", "selectPaths", "selectDomains", "excludePaths",
          "excludeDomains", "includeImages", "includeFavicon", "timeout"}
    [] t = "map" ->
         {"apiKey", "maxDepth", "maxBreadth", "limit", "selectPaths",
          "selectDomains", "excludePaths", "excludeDomains", "allowExternal",
          "instructions", "timeout"}
    [] t = "crawlAgent" -> {"apiKey"}
    [] t = "crawlCore" ->
         {"apiKey", "maxDepth", "extractDepth", "instructions",
          "allowExternal", "query", "chunksPerSource", "maxBreadth",
          "selectPaths"}
    [] t = "mapCore" ->
         {"apiKey", "maxDepth", "instructions", "allowExternal",
          "selectPaths"}

\* options the README documents for a constructor whose options type does
\* not declare them: the destructuring of the argument leaves them behind
UndeclaredOptions(t) ==
  IF t = "crawl" THEN {"instructions", "allowExternal"} ELSE {}

\* the keys a developer may put in the argument of the constructor
ConstructorFields(t) == OptionFields(t) \cup UndeclaredOptions(t)

\* the required field of each input schema
Primary(t) ==
  CASE t = "search" -> "query"
    [] t = "extract" -> "urls"
    [] OTHER -> "url"

\* the optional fields of each input schema
OverridableFields(t) ==
  CASE t = "search" ->
         {"includeDomains", "excludeDomains", "searchDepth", "includeImages",
          "timeRange", "topic", "includeFavicon", "startDate", "endDate"}
    [] t = "extract" -> {"extractDepth"}
    [] t = "crawl" -> {"maxDepth", "extractDepth", "instructions",
                       "allowExternal"}
    [] t = "map" -> {"maxDepth", "instructions", "allowExternal"}
    [] t = "crawlAgent" ->
         {"maxDepth", "maxBreadth", "limit", "extractDepth", "instructions",
          "selectPaths", "selectDomains", "excludePaths", "excludeDomains",
          "allowExternal", "includeImages", "format"}
    [] t = "crawlCore" ->
         {"maxDepth", "extractDepth", "instructions", "allowExternal",
          "query", "chunksPerSource"}
    [] t = "mapCore" -> {"maxDepth", "instructions", "allowExternal"}

InputFields(t) == {Primary(t)} \cup OverridableFields(t)

(***************************************************************************)
(* Sample values.  Options are well typed (the constructor is called from  *)
(* TypeScript); call inputs come from the agent and may be ill typed.      *)
(***************************************************************************)
\* the developer's and the agent's list entries differ, so that a payload
\* shows which layer a list came from
DeveloperNames == {"docs.example"}
AgentNames == {"agent.example"}

RECURSIVE SeqsUpTo(_, _)
SeqsUpTo(names, n) ==
  IF n = 0 THEN {<<>>}
  ELSE LET shorter == SeqsUpTo(names, n - 1)
       IN  shorter \cup {Append(s, x) : s \in shorter, x \in names}

Lists(names) == {List(l) : l \in SeqsUpTo(names, MaxListLen)}
Bools == {Bool(TRUE), Bool(FALSE)}

ListFields == {"includeDomains", "excludeDomains", "selectPaths",
               "selectDomains", "excludePaths"}
BoolFields == {"includeImages", "includeAnswer", "includeImageDescriptions",
               "autoParameters", "includeFavicon", "allowExternal"}

\* values of the declared TypeScript type of an option
OptionValues(f) ==
  CASE f = "apiKey" -> {Str(""), Str("tvly-dev")}
    [] f \in ListFields -> Lists(DeveloperNames)
    [] f \in BoolFields -> Bools
    [] f \in {"searchDepth", "extractDepth"} -> {Str("basic"), Str("advanced")}
    [] f = "topic" -> {Str("news")}
    [] f = "includeRawContent" -> {Bool(FALSE), Str("markdown")}
    [] f = "timeRange" -> {Str("week")}
    [] f = "format" -> {Str("text")}
    [] f = "country" -> {Str(""), Str("us")}
    [] f \in {"startDate", "endDate"} -> {Str(""), Str("2024-01-01")}
    [] f = "instructions" -> {Str(""), Str("docs only")}
    [] f = "query" -> {Str("pricing")}
    [] f = "maxDepth" -> {Num(2), Num(9)}
    [] f = "maxBreadth" -> {Num(10), Num(500)}
    [] OTHER -> {Num(0)}

\* values an agent may put in a call, legal or not
InputValues(f) ==
  CASE f = "query" -> {Str("tavily")}
    [] f = "url" -> {Str("https://tavily.com"), Str("not a url")}
    [] f = "urls" -> {List(<<"https://tavily.com">>), Str("https://tavily.com")}
    [] f = "includeDomains" -> Lists(AgentNames) \cup {Str("agent.example")}
    [] f \in ListFields -> Lists(AgentNames)
    [] f = "includeImages" -> Bools \cup {Str("yes")}
    [] f \in BoolFields -> Bools
    [] f \in {"searchDepth", "extractDepth"} ->
         {Str("basic"), Str("advanced"), Str("deep")}
    [] f = "topic" -> {Str("finance")}
    [] f = "timeRange" -> {Str("d")}
    [] f = "format" -> {Str("markdown")}
    [] f \in {"startDate", "endDate"} -> {Str(""), Str("2025-06-30")}
    [] f = "instructions" -> {Str(""), Str("blog posts")}
    [] f = "maxDepth" -> {Num(0), Num(5), Num(6), Str("2")}
    [] f = "maxBreadth" -> {Num(50), Num(101)}
    [] f = "limit" -> {Num(0), Num(7)}
    [] OTHER -> {Num(0), Num(4)}

\* the option objects of tool t that set at most n options
RECURSIVE ConfigsUpTo(_, _)
ConfigsUpTo(t, n) ==
  IF n = 0 THEN {[f \in ConstructorFields(t) |-> Undef]}
  ELSE LET fewer == ConfigsUpTo(t, n - 1)
       IN  fewer \cup UNION {{[o EXCEPT ![f] = v] : v \in OptionValues(f)} :
                               o \in fewer, f \in ConstructorFields(t)}

\* the optional parts of a call input of tool t that set at most n fields
RECURSIVE OptionalInputsUpTo(_, _)
OptionalInputsUpTo(t, n) ==
  IF n = 0 THEN {[f \in OverridableFields(t) |-> Undef]}
  ELSE LET fewer == OptionalInputsUpTo(t, n - 1)
       IN  fewer \cup UNION {{[o EXCEPT ![f] = v] : v \in InputValues(f)} :
                               o \in fewer, f \in OverridableFields(t)}

\* the option objects a developer passes to the constructor of tool t
Configs(t) == ConfigsUpTo(t, MaxCfgSet)

\* the call inputs an agent sends to tool t; the primary argument may be
\* missing
Inputs(t) ==
  {Put(opt, Primary(t), p) :
     opt \in OptionalInputsUpTo(t, MaxInputSet),
     p \in InputValues(Primary(t)) \cup {Undef}}

(***************************************************************************)
(* The input schemas (zod).                                                *)
(***************************************************************************)
ZString(v) == IsStr(v)
ZBoolean(v) == IsBool(v)
ZEnum(v, S) == IsStr(v) /\ v.str \in S
ZArrayOfString(v) == IsList(v)
ZNumberMin(v, lo) == IsNum(v) /\ v.num >= lo
\* .max(hi) left out of the schema
ZNumberRangeNoMax(v, lo, hi) == DOMAIN v = {"num"} /\ v.num >= lo

ZNumberRange(v, lo, hi) == IsNum(v) /\ v.num >= lo /\ v.num <= hi
\* z.string().url()
ZUrl(v) == IsStr(v) /\ v.str \in {"https://tavily.com"}

DepthEnum == {"basic", "advanced"}
TopicEnum == {"general", "news", "finance"}
TimeRangeEnum == {"year", "month", "week", "day", "y", "m", "w", "d"}
FormatEnum == {"markdown", "text"}
MinDepth == 1
MaxDepthAllowed == 5
MinBreadth == 1
MaxBreadthAllowed == 100

\* the check one declared field applies to a supplied value
FieldSchema(t, f, v) ==
  CASE f \in {"query", "instructions", "startDate", "endDate"} -> ZString(v)
    [] f = "url" -> IF t = "crawlAgent" THEN ZUrl(v) ELSE ZString(v)
    [] f = "urls" -> ZArrayOfString(v)
    [] f \in ListFields -> ZArrayOfString(v)
    [] f \in BoolFields -> ZBoolean(v)
    [] f \in {"searchDepth", "extractDepth"} -> ZEnum(v, DepthEnum)
    [] f = "topic" -> ZEnum(v, TopicEnum)
    [] f = "timeRange" -> ZEnum(v, TimeRangeEnum)
    [] f = "format" -> ZEnum(v, FormatEnum)
    [] f = "maxDepth" -> ZNumberRange(v, MinDepth, MaxDepthAllowed)
    [] f = "maxBreadth" -> ZNumberRange(v, MinBreadth, MaxBreadthAllowed)
    [] f \in {"limit", "chunksPerSource"} -> ZNumberMin(v, 1)
    [] OTHER -> FALSE

\* inputSchema.safeParse(in).success: the primary field is required, every
\* other declared field is .optional()
SchemaAccepts(t, in) ==
  /\ FieldSchema(t, Primary(t), in[Primary(t)])
  /\ \A f \in OverridableFields(t) :
       in[f] = Undef \/ FieldSchema(t, f, in[f])

(***************************************************************************)
(* The request bodies, one operator per execute.  `cfg` is the options     *)
(* object of the constructor, `in` the validated call input.               *)
(***************************************************************************)
\* if (v1) ... written for if (v1 !== undefined): a per-call false is skipped
PutFirstTruthy(c1, v1, c2, v2, obj, key) ==
  IF c1 /\ v1 # Bool(FALSE) THEN Put(obj, key, v1) ELSE PutIf(c2, obj, key, v2)

\* if (c1) obj[key] = v1; else if (c2) obj[key] = v2;
PutFirst(c1, v1, c2, v2, obj, key) ==
  IF c1 THEN Put(obj, key, v1) ELSE PutIf(c2, obj, key, v2)

SearchRequestBody(cfg, in) ==
  LET searchDepth == Default(cfg.searchDepth, Str("basic"))
      topic == Default(cfg.topic, Str("general"))
      includeImages == Default(cfg.includeImages, Bool(FALSE))
      includeAnswer == Default(cfg.includeAnswer, Bool(FALSE))
      maxResults == Default(cfg.maxResults, Num(5))
      timeout == Default(cfg.timeout, Num(60))
      b0 == [query |-> in.query,
             search_depth |-> Nullish(in.searchDepth, searchDepth),
             topic |-> Nullish(in.topic, topic),
             max_results |-> maxResults,
             include_images |-> Nullish(in.includeImages, includeImages),
             include_answer |-> includeAnswer]
      b1 == PutFirst(NonEmptyList(in.includeDomains), in.includeDomains,
                     NonEmptyList(cfg.includeDomains), cfg.includeDomains,
                     b0, "include_domains")
      b2 == PutFirst(NonEmptyList(in.excludeDomains), in.excludeDomains,
                     NonEmptyList(cfg.excludeDomains), cfg.excludeDomains,
                     b1, "exclude_domains")
      b3 == PutFirst(Truthy(in.timeRange), in.timeRange,
                     Truthy(cfg.timeRange), cfg.timeRange, b2, "time_range")
      b4 == PutFirst(Truthy(in.startDate), in.startDate,
                     Truthy(cfg.startDate), cfg.startDate, b3, "start_date")
      b5 == PutFirst(Truthy(in.endDate), in.endDate,
                     Truthy(cfg.endDate), cfg.endDate, b4, "end_date")
      b6 == PutFirst(in.includeFavicon # Undef, in.includeFavicon,
                     cfg.includeFavicon # Undef, cfg.includeFavicon,
                     b5, "include_favicon")
      b7 == PutIf(cfg.days # Undef, b6, "days", cfg.days)
      b8 == PutIf(cfg.includeImageDescriptions # Undef, b7,
                  "include_image_descriptions", cfg.includeImageDescriptions)
      b9 == PutIf(Truthy(cfg.includeRawContent), b8,
                  "include_raw_content", cfg.includeRawContent)
      b10 == PutIf(Truthy(cfg.country), b9, "country", cfg.country)
      b11 == PutIf(cfg.chunksPerSource # Undef, b10,
                   "chunks_per_source", cfg.chunksPerSource)
      b12 == PutIf(cfg.autoParameters # Undef, b11,
                   "auto_parameters", cfg.autoParameters)
      b13 == PutIf(cfg.maxTokens # Undef, b12, "max_tokens", cfg.maxTokens)
  IN  PutIf(timeout # Undef, b13, "timeout", timeout)

\* the extraction depth sent under its internal name
ExtractRequestBodyCamel(cfg, in) ==
  LET includeImages == Default(cfg.includeImages, Bool(FALSE))
      extractDepth == Default(cfg.extractDepth, Str("basic"))
      format == Default(cfg.format, Str("markdown"))
      timeout == Default(cfg.timeout, Num(30))
      b0 == [urls |-> in.urls,
             include_images |-> includeImages,
             extractDepth |-> Nullish(in.extractDepth, extractDepth),
             format |-> format]
      b1 == PutIf(cfg.includeFavicon # Undef, b0,
                  "include_favicon", cfg.includeFavicon)
  IN  PutIf(timeout # Undef, b1, "timeout", timeout)

ExtractRequestBody(cfg, in) ==
  LET includeImages == Default(cfg.includeImages, Bool(FALSE))
      extractDepth == Default(cfg.extractDepth, Str("basic"))
      format == Default(cfg.format, Str("markdown"))
      timeout == Default(cfg.timeout, Num(30))
      b0 == [urls |-> in.urls,
             include_images |-> includeImages,
             extract_depth |-> Nullish(in.extractDepth, extractDepth),
             format |-> format]
      b1 == PutIf(cfg.includeFavicon # Undef, b0,
                  "include_favicon", cfg.includeFavicon)
  IN  PutIf(timeout # Undef, b1, "timeout", timeout)

\* the filters defaulted to empty lists instead of being left out
PutFiltersDefaulted(cfg, obj) ==
  LET b1 == Put(obj, "select_paths", Default(cfg.selectPaths, List(<<>>)))
      b2 == Put(b1, "select_domains", Default(cfg.selectDomains, List(<<>>)))
      b3 == Put(b2, "exclude_paths", Default(cfg.excludePaths, List(<<>>)))
  IN  Put(b3, "exclude_domains", Default(cfg.excludeDomains, List(<<>>)))

\* exclude_domains filled from selectDomains, excludeDomains never sent
PutFiltersMisplaced(cfg, obj) ==
  LET b1 == PutIf(NonEmptyList(cfg.selectPaths), obj,
                  "select_paths", cfg.selectPaths)
      b2 == PutIf(NonEmptyList(cfg.selectDomains), b1,
                  "select_domains", cfg.selectDomains)
      b3 == PutIf(NonEmptyList(cfg.excludePaths), b2,
                  "exclude_paths", cfg.excludePaths)
  IN  PutIf(NonEmptyList(cfg.selectDomains), b3,
            "exclude_domains", cfg.selectDomains)

\* the developer-only path and domain filters shared by crawl and map
PutFilters(cfg, obj) ==
  LET b1 == PutIf(NonEmptyList(cfg.selectPaths), obj,
                  "select_paths", cfg.selectPaths)
      b2 == PutIf(NonEmptyList(cfg.selectDomains), b1,
                  "select_domains", cfg.selectDomains)
      b3 == PutIf(NonEmptyList(cfg.excludePaths), b2,
                  "exclude_paths", cfg.excludePaths)
  IN  PutIf(NonEmptyList(cfg.excludeDomains), b3,
            "exclude_domains", cfg.excludeDomains)

\* max_breadth taken from the call's maxDepth
CrawlRequestBodyBreadthFromCall(cfg, in) ==
  LET maxDepth == Default(cfg.maxDepth, Num(1))
      maxBreadth == Default(cfg.maxBreadth, Num(20))
      limit == Default(cfg.limit, Num(50))
      extractDepth == Default(cfg.extractDepth, Str("basic"))
      format == Default(cfg.format, Str("markdown"))
      includeImages == Default(cfg.includeImages, Bool(FALSE))
      timeout == Default(cfg.timeout, Num(150))
      b0 == [url |-> in.url,
             max_depth |-> Nullish(in.maxDepth, maxDepth),
             max_breadth |-> Nullish(in.maxDepth, maxBreadth),
             limit |-> limit,
             extract_depth |-> Nullish(in.extractDepth, extractDepth),
             format |-> format,
             include_images |-> includeImages]
      b1 == PutIf(Truthy(in.instructions), b0,
                  "instructions", in.instructions)
      b2 == PutIf(in.allowExternal # Undef, b1,
                  "allow_external", in.allowExternal)
      b3 == PutFilters(cfg, b2)
      b4 == PutIf(cfg.includeFavicon # Undef, b3,
                  "include_favicon", cfg.includeFavicon)
  IN  PutIf(timeout # Undef, b4, "timeout", timeout)

CrawlRequestBody(cfg, in) ==
  LET maxDepth == Default(cfg.maxDepth, Num(1))
      maxBreadth == Default(cfg.maxBreadth, Num(20))
      limit == Default(cfg.limit, Num(50))
      extractDepth == Default(cfg.extractDepth, Str("basic"))
      format == Default(cfg.format, Str("markdown"))
      includeImages == Default(cfg.includeImages, Bool(FALSE))
      timeout == Default(cfg.timeout, Num(150))
      b0 == [url |-> in.url,
             max_depth |-> Nullish(in.maxDepth, maxDepth),
             max_breadth |-> maxBreadth,
             limit |-> limit,
             extract_depth |-> Nullish(in.extractDepth, extractDepth),
             format |-> format,
             include_images |-> includeImages]
      b1 == PutIf(Truthy(in.instructions), b0,
                  "instructions", in.instructions)
      b2 == PutIf(in.allowExternal # Undef, b1,
                  "allow_external", in.allowExternal)
      b3 == PutFilters(cfg, b2)
      b4 == PutIf(cfg.includeFavicon # Undef, b3,
                  "include_favicon", cfg.includeFavicon)
  IN  PutIf(timeout # Undef, b4, "timeout", timeout)

\* the construction-time instructions tested before the per-call ones
MapRequestBodyConfigFirst(cfg, in) ==
  LET maxDepth == Default(cfg.maxDepth, Num(1))
      maxBreadth == Default(cfg.maxBreadth, Num(20))
      limit == Default(cfg.limit, Num(50))
      timeout == Default(cfg.timeout, Num(150))
      b0 == [url |-> in.url,
             max_depth |-> Nullish(in.maxDepth, maxDepth),
             max_breadth |-> maxBreadth,
             limit |-> limit]
      b1 == PutFirst(Truthy(cfg.instructions), cfg.instructions,
                     Truthy(in.instructions), in.instructions,
                     b0, "instructions")
      b2 == PutFirst(in.allowExternal # Undef, in.allowExternal,
                     cfg.allowExternal # Undef, cfg.allowExternal,
                     b1, "allow_external")
      b3 == PutFilters(cfg, b2)
  IN  PutIf(timeout # Undef, b3, "timeout", timeout)

MapRequestBody(cfg, in) ==
  LET maxDepth == Default(cfg.maxDepth, Num(1))
      maxBreadth == Default(cfg.maxBreadth, Num(20))
      limit == Default(cfg.limit, Num(50))
      timeout == Default(cfg.timeout, Num(150))
      b0 == [url |-> in.url,
             max_depth |-> Nullish(in.maxDepth, maxDepth),
             max_breadth |-> maxBreadth,
             limit |-> limit]
      b1 == PutFirst(Truthy(in.instructions), in.instructions,
                     Truthy(cfg.instructions), cfg.instructions,
                     b0, "instructions")
      b2 == PutFirst(in.allowExternal # Undef, in.allowExternal,
                     cfg.allowExternal # Undef, cfg.allowExternal,
                     b1, "allow_external")
      b3 == PutFilters(cfg, b2)
  IN  PutIf(timeout # Undef, b3, "timeout", timeout)

\* the crawl tool whose parameters all come from the call
CrawlAgentRequestBody(cfg, in) ==
  LET b0 == [url |-> in.url,
             max_depth |-> Default(in.maxDepth, Num(1)),
             max_breadth |-> Default(in.maxBreadth, Num(20)),
             limit |-> Default(in.limit, Num(50)),
             extract_depth |-> Default(in.extractDepth, Str("basic")),
             format |-> Default(in.format, Str("markdown"))]
      b1 == PutIf(Truthy(in.instructions), b0,
                  "instructions", in.instructions)
      b2 == PutFilters(in, b1)
      b3 == PutIf(in.allowExternal # Undef, b2,
                  "allow_external", in.allowExternal)
  IN  PutIf(in.includeImages # Undef, b3,
            "include_images", in.includeImages)

RequestBody(t, cfg, in) ==
  CASE t = "search" -> SearchRequestBody(cfg, in)
    [] t = "extract" -> ExtractRequestBody(cfg, in)
    [] t = "crawl" -> CrawlRequestBody(cfg, in)
    [] t = "map" -> MapRequestBody(cfg, in)
    [] t = "crawlAgent" -> CrawlAgentRequestBody(cfg, in)

\* { ...options, maxDepth: inputMaxDepth ?? options.maxDepth, ... }: the
\* options object the crawl tool passes to client.crawl(url, options)
CrawlCoreOptions(cfg, in) ==
  [k \in DOMAIN cfg |->
     IF k \in OverridableFields("crawlCore")
     THEN Nullish(in[k], cfg[k]) ELSE cfg[k]]

\* { ...options, maxDepth: inputMaxDepth ?? options.maxDepth, instructions:
\* inputInstructions ?? options.instructions, allowExternal: ... }: the
\* options object the map tool passes to client.map(url, options)
MapCoreOptions(cfg, in) ==
  [k \in DOMAIN cfg |->
     IF k \in OverridableFields("mapCore")
     THEN Nullish(in[k], cfg[k]) ELSE cfg[k]]

CoreOptions(t, cfg, in) ==
  IF t = "mapCore" THEN MapCoreOptions(cfg, in) ELSE CrawlCoreOptions(cfg, in)

(***************************************************************************)
(* HTTP responses and failure messages.  A message is the sequence of the  *)
(* pieces its template concatenates; it contains a text when one of its    *)
(* pieces is that text.                                                    *)
(***************************************************************************)
Statuses == {200, 429, 500}

StatusText(status) ==
  CASE status = 200 -> "OK"
    [] status = 429 -> "Too Many Requests"
    [] status = 500 -> "Internal Server Error"
    [] OTHER -> ""

\* response.ok
Ok(status) == status >= 200 /\ status <= 299

\* the JSON documents the service answers with
JsonValues == {[error |-> Str("rate limited")],
               [results |-> List(<<"https://tavily.com/blog">>)]}

\* a body is either JSON text or text that JSON.parse rejects
Unparseable == [text |-> "<html>Bad Gateway</html>"]
Bodies == {Unparseable} \cup {[json |-> v] : v \in JsonValues}
Responses == {[status |-> st, body |-> b] : st \in Statuses, b \in Bodies}

\* response.json(): the parsed document, or a rejection
JsonRejects(body) == "json" \notin DOMAIN body

\* only the results of the document handed back
JsonResultsOnly(body) ==
  IF "results" \in DOMAIN body.json THEN body.json.results ELSE Undef

JsonOf(body) == body.json

RECURSIVE JoinAll(_)
JoinAll(seqs) ==
  IF seqs = <<>> THEN <<>> ELSE Head(seqs) \o JoinAll(Tail(seqs))

\* JSON.stringify of a string, number, boolean or array of strings
StringifyValue(v) ==
  CASE IsStr(v) -> <<"\"", v.str, "\"">>
    [] IsNum(v) -> <<ToString(v.num)>>
    [] IsBool(v) -> <<IF v.bool THEN "true" ELSE "false">>
    [] IsList(v) ->
         <<"[">> \o JoinAll([i \in 1..Len(v.list) |->
                              <<"\"", v.list[i], "\"">>]) \o <<"]">>
    [] OTHER -> <<>>

\* JSON.stringify of an object
RECURSIVE StringifyMembers(_, _)
StringifyMembers(obj, keys) ==
  IF keys = {} THEN <<>>
  ELSE LET k == CHOOSE x \in keys : TRUE
       IN  <<"\"", k, "\"", ":">> \o StringifyValue(obj[k])
             \o StringifyMembers(obj, keys \ {k})

Stringify(obj) ==
  <<"{">> \o StringifyMembers(obj, {k \in DOMAIN obj : obj[k] # Undef})
          \o <<"}">>

Contains(msg, text) == \E i \in 1..Len(msg) : msg[i] = text

\* thrown before the try block when no key is available
ConfigErrorMessage ==
  <<"Tavily API key", " is required. Set it via ", "options", " or ",
    "TAVILY_API_KEY environment variable", ".">>

\* the error detail left out of the message
ApiErrorMessageNoDetail(status, errorData) ==
  <<"Tavily API error: ", ToString(status), " ", StatusText(status), ". ">>

\* `Tavily API error: ${status} ${statusText}. ${JSON.stringify(errorData)}`
ApiErrorMessage(status, errorData) ==
  <<"Tavily API error: ", ToString(status), " ", StatusText(status), ". ">>
    \o Stringify(errorData)

\* the message of the SyntaxError response.json() rejects with
ParseErrorMessage == <<"Unexpected token '<' is not valid JSON">>

\* the message of the TypeError fetch rejects with
TransportErrorMessage == <<"fetch failed">>

\* the caught error rethrown without the prefix
WrappedBare(t, message) == message

\* catch (error) { throw new Error(`Failed to <verb> with Tavily: ${error.message}`) }
Wrapped(t, message) == <<"Failed to ", Verb(t), " with Tavily: ">> \o message

\* const errorData = await response.json().catch(() => ({}))
ErrorData(body) == IF JsonRejects(body) THEN EmptyObj ELSE JsonOf(body)

\* the .catch(() => ({})) left out: the rejection of response.json() reaches
\* the catch block of execute
ApiFailureUncaughtParse(t, r) ==
  IF JsonRejects(r.body) THEN Wrapped(t, ParseErrorMessage)
  ELSE Wrapped(t, ApiErrorMessage(r.status, JsonOf(r.body)))

\* the message execute throws for a response that is not ok
ApiFailure(t, r) == Wrapped(t, ApiErrorMessage(r.status, ErrorData(r.body)))

(***************************************************************************)
(* State: one tool instance and its current invocation.                    *)
(***************************************************************************)
VARIABLES
  tool,             \* which tool definition was instantiated
  cfg,              \* the argument of the constructor, kept by the closure
  env,              \* process.env.TAVILY_API_KEY
  pc,               \* position of the current invocation
  input,            \* the call input of the current invocation
  effectiveApiKey,  \* apiKey || process.env.TAVILY_API_KEY
  requestBody,      \* the requestBody object under construction
  requests,         \* the fetch calls issued by the current invocation
  clientCalls,      \* the @tavily/core client calls of the current invocation
  response,         \* the response the fetch resolved with
  result,           \* the value execute returned
  error,            \* the message of the Error execute threw
  calls             \* the invocations in flight when several run at once

vars == <<tool, cfg, env, pc, input, effectiveApiKey, requestBody, requests,
          clientCalls, response, result, error, calls>>

None == [none |-> TRUE]
NoError == <<>>

EnvValues == {Undef, Str("tvly-env")}

\* one invocation at a time: nothing else is in flight
NoCalls == <<>>

Init ==
  /\ tool \in Tools
  /\ cfg \in Configs(tool)
  /\ env \in EnvValues
  /\ pc = "Idle"
  /\ input = None
  /\ effectiveApiKey = None
  /\ requestBody = None
  /\ requests = <<>>
  /\ clientCalls = <<>>
  /\ response = None
  /\ result = None
  /\ error = NoError
  /\ calls = NoCalls

\* The framework parses the agent's arguments against inputSchema and runs
\* execute only with arguments the schema accepts.
Invoke ==
  /\ pc = "Idle"
  /\ \E in \in Inputs(tool) :
       /\ input' = in
       /\ pc' = IF SchemaAccepts(tool, in) THEN "Validated" ELSE "Rejected"
  /\ UNCHANGED <<calls, tool, cfg, env, effectiveApiKey, requestBody, requests,
                 clientCalls, response, result, error>>

\* const effectiveApiKey = apiKey || process.env.TAVILY_API_KEY;
\* if (!effectiveApiKey) throw new Error(...)
ResolveCredential ==
  /\ pc = "Validated"
  /\ tool \in FetchTools
  /\ effectiveApiKey' = OrElse(cfg.apiKey, env)
  /\ IF Truthy(effectiveApiKey')
     THEN pc' = "CredentialResolved" /\ error' = error
     ELSE pc' = "Failed" /\ error' = ConfigErrorMessage
  /\ UNCHANGED <<calls, tool, cfg, env, input, requestBody, requests, clientCalls,
                 response, result>>

\* const requestBody = {...}; if (...) requestBody.x = ...
BuildPayload ==
  /\ pc = "CredentialResolved"
  /\ requestBody' = RequestBody(tool, cfg, input)
  /\ pc' = "PayloadBuilt"
  /\ UNCHANGED <<calls, tool, cfg, env, input, effectiveApiKey, requests,
                 clientCalls, response, result, error>>

\* the request leaves as soon as the credential is resolved
SendRequestUnbuilt ==
  /\ pc \in {"CredentialResolved", "PayloadBuilt"}
  /\ requests' = Append(requests,
                        [url |-> Endpoint(tool),
                         method |-> "POST",
                         contentType |-> "application/json",
                         authorization |-> <<"Bearer ", effectiveApiKey.str>>,
                         body |-> IF requestBody = None THEN EmptyObj
                                  ELSE JsonBody(requestBody)])
  /\ pc' = "RequestSent"
  /\ UNCHANGED <<calls, tool, cfg, env, input, effectiveApiKey, requestBody,
                 clientCalls, response, result, error>>

\* the key sent in the body as well: requestBody.api_key = effectiveApiKey
SendRequestKeyInBody ==
  /\ pc = "PayloadBuilt"
  /\ requests' = Append(requests,
                        [url |-> Endpoint(tool),
                         method |-> "POST",
                         contentType |-> "application/json",
                         authorization |-> <<"Bearer ", effectiveApiKey.str>>,
                         body |-> Put(JsonBody(requestBody), "api_key",
                                      effectiveApiKey)])
  /\ pc' = "RequestSent"
  /\ UNCHANGED <<calls, tool, cfg, env, input, effectiveApiKey, requestBody,
                 clientCalls, response, result, error>>

\* fetch(endpoint, { method: "POST", headers, body: JSON.stringify(requestBody) })
SendRequest ==
  /\ pc = "PayloadBuilt"
  /\ requests' = Append(requests,
                        [url |-> Endpoint(tool),
                         method |-> "POST",
                         contentType |-> "application/json",
                         authorization |-> <<"Bearer ", effectiveApiKey.str>>,
                         body |-> JsonBody(requestBody)])
  /\ pc' = "RequestSent"
  /\ UNCHANGED <<calls, tool, cfg, env, input, effectiveApiKey, requestBody,
                 clientCalls, response, result, error>>

\* the parsed body of a response that is not ok handed back next to the error
ReceiveResponsePartial ==
  /\ pc = "RequestSent"
  /\ \E r \in Responses :
       /\ response' = r
       /\ IF ~Ok(r.status)
          THEN /\ error' = ApiFailure(tool, r)
               /\ result' = ErrorData(r.body)
               /\ pc' = "Failed"
          ELSE IF JsonRejects(r.body)
          THEN /\ error' = Wrapped(tool, ParseErrorMessage)
               /\ result' = result
               /\ pc' = "Failed"
          ELSE /\ result' = JsonOf(r.body)
               /\ error' = error
               /\ pc' = "Succeeded"
  /\ UNCHANGED <<calls, tool, cfg, env, input, effectiveApiKey, requestBody,
                 requests, clientCalls>>

\* response.json().catch(() => undefined) on the success path: the parse
\* failure is swallowed and undefined is returned
ReceiveResponseSwallowed ==
  /\ pc = "RequestSent"
  /\ \E r \in Responses :
       /\ response' = r
       /\ IF ~Ok(r.status)
          THEN /\ error' = ApiFailure(tool, r)
               /\ result' = result
               /\ pc' = "Failed"
          ELSE /\ result' = IF JsonRejects(r.body) THEN Undef
                            ELSE JsonOf(r.body)
               /\ error' = error
               /\ pc' = "Succeeded"
  /\ UNCHANGED <<calls, tool, cfg, env, input, effectiveApiKey, requestBody,
                 requests, clientCalls>>

\* the fetch resolves with response r: the rest of the try block
ReceiveResponse ==
  /\ pc = "RequestSent"
  /\ \E r \in Responses :
       /\ response' = r
       /\ IF ~Ok(r.status)
          THEN /\ error' = ApiFailure(tool, r)
               /\ result' = result
               /\ pc' = "Failed"
          ELSE IF JsonRejects(r.body)
          THEN /\ error' = Wrapped(tool, ParseErrorMessage)
               /\ result' = result
               /\ pc' = "Failed"
          ELSE /\ result' = JsonOf(r.body)
               /\ error' = error
               /\ pc' = "Succeeded"
  /\ UNCHANGED <<calls, tool, cfg, env, input, effectiveApiKey, requestBody,
                 requests, clientCalls>>

\* the catch block sends the request once more before giving up
TransportFailureRetried ==
  /\ pc = "RequestSent"
  /\ error' = Wrapped(tool, TransportErrorMessage)
  /\ pc' = IF Len(requests) < 2 THEN "PayloadBuilt" ELSE "Failed"
  /\ UNCHANGED <<calls, tool, cfg, env, input, effectiveApiKey, requestBody,
                 requests, clientCalls, response, result>>

\* the fetch rejects (connectivity, DNS, TLS): the catch block
TransportFailure ==
  /\ pc = "RequestSent"
  /\ error' = Wrapped(tool, TransportErrorMessage)
  /\ pc' = "Failed"
  /\ UNCHANGED <<calls, tool, cfg, env, input, effectiveApiKey, requestBody,
                 requests, clientCalls, response, result>>

\* return await client.crawl(url, { ...options, ... }), and client.map
CallClient ==
  /\ pc = "Validated"
  /\ tool \in CoreTools
  /\ clientCalls' = Append(clientCalls,
                           [method |-> Verb(tool),
                            url |-> input.url,
                            options |-> CoreOptions(tool, cfg, input)])
  /\ pc' = "ClientCalled"
  /\ UNCHANGED <<calls, tool, cfg, env, input, effectiveApiKey, requestBody,
                 requests, response, result, error>>

\* the client's promise resolves: execute returns its value
ClientReturns ==
  /\ pc = "ClientCalled"
  /\ result' \in JsonValues
  /\ pc' = "Succeeded"
  /\ UNCHANGED <<calls, tool, cfg, env, input, effectiveApiKey, requestBody,
                 requests, clientCalls, response, error>>

\* the client's promise rejects: execute rethrows
ClientThrows ==
  /\ pc = "ClientCalled"
  /\ error' = <<"client error">>
  /\ pc' = "Failed"
  /\ UNCHANGED <<calls, tool, cfg, env, input, effectiveApiKey, requestBody,
                 requests, clientCalls, response, result>>

Terminal == {"Succeeded", "Failed", "Rejected"}

\* the invocation is over; the tool instance waits for the next call
Return ==
  /\ pc \in Terminal
  /\ pc' = "Idle"
  /\ input' = None
  /\ effectiveApiKey' = None
  /\ requestBody' = None
  /\ requests' = <<>>
  /\ clientCalls' = <<>>
  /\ response' = None
  /\ result' = None
  /\ error' = NoError
  /\ UNCHANGED <<calls, tool, cfg, env>>

Next ==
  \/ Invoke
  \/ ResolveCredential
  \/ BuildPayload
  \/ SendRequest
  \/ ReceiveResponse
  \/ TransportFailure
  \/ CallClient
  \/ ClientReturns
  \/ ClientThrows
  \/ Return

Spec == Init /\ [][Next]_vars

(***************************************************************************)
(* Several invocations of one tool instance in flight at once.  execute is *)
(* an async function: it runs from its entry to `await fetch(...)` (or to  *)
(* `await client.crawl(...)`) without interruption, and again from the     *)
(* arrival of the response to its return or throw; other invocations and   *)
(* the framework take their steps in between.  Each invocation has its own *)
(* arguments and locals; the options and process.env are all they share.   *)
(***************************************************************************)
MaxCalls == 2
CallIds == 1..MaxCalls

\* the locals of an invocation that has not been entered
IdleCall ==
  [pc |-> "Idle", input |-> None, effectiveApiKey |-> None,
   requestBody |-> None, requests |-> <<>>, clientCalls |-> <<>>,
   response |-> None, result |-> None, error |-> NoError,
   cancelled |-> FALSE]

\* the option and the input field each tool kind is exercised with
SecondField(t) ==
  CASE t = "search" -> "searchDepth"
    [] t = "extract" -> "extractDepth"
    [] OTHER -> "maxDepth"

ConcurrentConfigs(t) ==
  {c \in ConfigsUpTo(t, 1) :
     \A f \in DOMAIN c : c[f] = Undef \/ f \in {"apiKey", SecondField(t)}}

BareCall(t) ==
  [f \in InputFields(t) |->
     IF f # Primary(t) THEN Undef
     ELSE CASE t = "search" -> Str("tavily")
            [] t = "extract" -> List(<<"https://tavily.com">>)
            [] OTHER -> Str("https://tavily.com")]

ConcurrentInputs(t) ==
  {BareCall(t),
   Put(BareCall(t), SecondField(t),
       IF SecondField(t) = "maxDepth" THEN Num(5) ELSE Str("advanced")),
   Put(BareCall(t), Primary(t), Undef)}

ConcurrentResponses ==
  {[status |-> 200,
    body |-> [json |-> [results |-> List(<<"https://tavily.com/blog">>)]]],
   [status |-> 429, body |-> [json |-> [error |-> Str("rate limited")]]],
   [status |-> 500, body |-> Unparseable]}

\* the variables of the one-at-a-time specification
single == <<pc, input, effectiveApiKey, requestBody, requests, clientCalls,
            response, result, error>>

InitConcurrent ==
  /\ tool \in Tools
  /\ cfg \in ConcurrentConfigs(tool)
  /\ env \in EnvValues
  /\ pc = "Idle"
  /\ input = None
  /\ effectiveApiKey = None
  /\ requestBody = None
  /\ requests = <<>>
  /\ clientCalls = <<>>
  /\ response = None
  /\ result = None
  /\ error = NoError
  /\ calls = [i \in CallIds |-> IdleCall]

\* execute from its entry to its first await, for call input in: the schema
\* check of the framework, the credential, the request body and the fetch
EnterExecute(in) ==
  IF ~SchemaAccepts(tool, in)
  THEN [IdleCall EXCEPT !.pc = "Rejected", !.input = in]
  ELSE IF tool \in CoreTools
  THEN [IdleCall EXCEPT
          !.pc = "ClientCalled", !.input = in,
          !.clientCalls = <<[method |-> Verb(tool), url |-> in.url,
                             options |-> CoreOptions(tool, cfg, in)]>>]
  ELSE IF ~Truthy(OrElse(cfg.apiKey, env))
  THEN [IdleCall EXCEPT
          !.pc = "Failed", !.input = in,
          !.effectiveApiKey = OrElse(cfg.apiKey, env),
          !.error = ConfigErrorMessage]
  ELSE [IdleCall EXCEPT
          !.pc = "RequestSent", !.input = in,
          !.effectiveApiKey = OrElse(cfg.apiKey, env),
          !.requestBody = RequestBody(tool, cfg, in),
          !.requests =
             <<[url |-> Endpoint(tool),
                method |-> "POST",
                contentType |-> "application/json",
                authorization |-> <<"Bearer ", OrElse(cfg.apiKey, env).str>>,
                body |-> JsonBody(RequestBody(tool, cfg, in))]>>]

\* the per-call value written into the options object the invocations share
StartCallIntoOptions(i) ==
  /\ calls[i].pc = "Idle"
  /\ \E in \in ConcurrentInputs(tool) :
       /\ calls' = [calls EXCEPT ![i] = EnterExecute(in)]
       /\ cfg' = IF SchemaAccepts(tool, in)
                 THEN [cfg EXCEPT ![SecondField(tool)] =
                                    Nullish(in[SecondField(tool)], @)]
                 ELSE cfg
  /\ UNCHANGED <<tool, env, single>>

\* the agent calls the tool while other invocations may be pending
StartCall(i) ==
  /\ calls[i].pc = "Idle"
  /\ \E in \in ConcurrentInputs(tool) :
       calls' = [calls EXCEPT ![i] = EnterExecute(in)]
  /\ UNCHANGED <<tool, cfg, env, single>>

\* The framework aborts the abortSignal of a pending tool call.  execute
\* takes its first parameter only and calls fetch without a signal, so the
\* pending request and the invocation are left as they are.
CancelCall(i) ==
  /\ calls[i].pc \in {"RequestSent", "ClientCalled"}
  /\ ~calls[i].cancelled
  /\ calls' = [calls EXCEPT ![i].cancelled = TRUE]
  /\ UNCHANGED <<tool, cfg, env, single>>

\* execute from the arrival of response r to its return or throw
Settle(c, r) ==
  IF ~Ok(r.status)
  THEN [c EXCEPT !.response = r, !.pc = "Failed",
                 !.error = ApiFailure(tool, r)]
  ELSE IF JsonRejects(r.body)
  THEN [c EXCEPT !.response = r, !.pc = "Failed",
                 !.error = Wrapped(tool, ParseErrorMessage)]
  ELSE [c EXCEPT !.response = r, !.pc = "Succeeded",
                 !.result = JsonOf(r.body)]

RespondCall(i) ==
  /\ calls[i].pc = "RequestSent"
  /\ \E r \in ConcurrentResponses :
       calls' = [calls EXCEPT ![i] = Settle(calls[i], r)]
  /\ UNCHANGED <<tool, cfg, env, single>>

\* the fetch of call i rejects
FetchRejectsCall(i) ==
  /\ calls[i].pc = "RequestSent"
  /\ calls' = [calls EXCEPT
                 ![i].pc = "Failed",
                 ![i].error = Wrapped(tool, TransportErrorMessage)]
  /\ UNCHANGED <<tool, cfg, env, single>>

\* the promise of the client resolves or rejects
ClientSettlesCall(i) ==
  /\ calls[i].pc = "ClientCalled"
  /\ \/ \E v \in JsonValues :
          calls' = [calls EXCEPT ![i].pc = "Succeeded", ![i].result = v]
     \/ calls' = [calls EXCEPT ![i].pc = "Failed",
                               ![i].error = <<"client error">>]
  /\ UNCHANGED <<tool, cfg, env, single>>

\* the outcome has reached the framework; the slot is free again
FinishCall(i) ==
  /\ calls[i].pc \in Terminal
  /\ calls' = [calls EXCEPT ![i] = IdleCall]
  /\ UNCHANGED <<tool, cfg, env, single>>

NextConcurrent ==
  \E i \in CallIds :
    \/ StartCall(i)
    \/ CancelCall(i)
    \/ RespondCall(i)
    \/ FetchRejectsCall(i)
    \/ ClientSettlesCall(i)
    \/ FinishCall(i)

SpecConcurrent == InitConcurrent /\ [][NextConcurrent]_vars

(***************************************************************************)
(* Reference tables for the properties.                                    *)
(***************************************************************************)
\* the key under which an internal field travels to the remote API
WireName(f) ==
  CASE f = "searchDepth" -> "search_depth"
    [] f = "maxResults" -> "max_results"
    [] f = "includeImages" -> "include_images"
    [] f = "includeAnswer" -> "include_answer"
    [] f = "includeImageDescriptions" -> "include_image_descriptions"
    [] f = "includeRawContent" -> "include_raw_content"
    [] f = "includeDomains" -> "include_domains"
    [] f = "excludeDomains" -> "exclude_domains"
    [] f = "timeRange" -> "time_range"
    [] f = "chunksPerSource" -> "chunks_per_source"
    [] f = "startDate" -> "start_date"
    [] f = "endDate" -> "end_date"
    [] f = "autoParameters" -> "auto_parameters"
    [] f = "maxTokens" -> "max_tokens"
    [] f = "includeFavicon" -> "include_favicon"
    [] f = "extractDepth" -> "extract_depth"
    [] f = "maxDepth" -> "max_depth"
    [] f = "maxBreadth" -> "max_breadth"
    [] f = "selectPaths" -> "select_paths"
    [] f = "selectDomains" -> "select_domains"
    [] f = "excludePaths" -> "exclude_paths"
    [] f = "allowExternal" -> "allow_external"
    [] OTHER -> f

\* the internal (camelCase) names that differ from their wire name
CamelCaseNames ==
  {"searchDepth", "maxResults", "includeImages", "includeAnswer",
   "includeImageDescriptions", "includeRawContent", "includeDomains",
   "excludeDomains", "timeRange", "chunksPerSource", "startDate", "endDate",
   "autoParameters", "maxTokens", "includeFavicon", "extractDepth",
   "maxDepth", "maxBreadth", "selectPaths", "selectDomains", "excludePaths",
   "allowExternal", "apiKey"}

\* the default a tool substitutes for an option nobody set; undefined when
\* the tool has none
HardcodedDefault(t, f) ==
  CASE t = "search" /\ f = "searchDepth" -> Str("basic")
    [] t = "search" /\ f = "topic" -> Str("general")
    [] t = "search" /\ f = "includeImages" -> Bool(FALSE)
    [] t = "search" /\ f = "includeAnswer" -> Bool(FALSE)
    [] t = "search" /\ f = "maxResults" -> Num(5)
    [] t = "search" /\ f = "timeout" -> Num(60)
    [] t = "extract" /\ f = "includeImages" -> Bool(FALSE)
    [] t = "extract" /\ f = "extractDepth" -> Str("basic")
    [] t = "extract" /\ f = "format" -> Str("markdown")
    [] t = "extract" /\ f = "timeout" -> Num(30)
    [] t \in {"crawl", "map", "crawlAgent"} /\ f = "maxDepth" -> Num(1)
    [] t \in {"crawl", "map", "crawlAgent"} /\ f = "maxBreadth" -> Num(20)
    [] t \in {"crawl", "map", "crawlAgent"} /\ f = "limit" -> Num(50)
    [] t \in {"crawl", "crawlAgent"} /\ f = "extractDepth" -> Str("basic")
    [] t \in {"crawl", "crawlAgent"} /\ f = "format" -> Str("markdown")
    [] t = "crawl" /\ f = "includeImages" -> Bool(FALSE)
    [] t \in {"crawl", "map"} /\ f = "timeout" -> Num(150)
    [] OTHER -> Undef

\* the invocation has handed its parameters over: to fetch, or to the client
Dispatched == pc \in {"RequestSent", "ClientCalled"}

\* the invocation has just posted its request
Sent == pc = "RequestSent"

\* the JSON body of the request the invocation sent
SentBody == requests[1].body

\* the value that left the tool for internal field f, undefined when absent
Resolved(f) ==
  IF tool \in CoreTools THEN Get(clientCalls[1].options, f)
  ELSE Get(SentBody, WireName(f))

\* the per-call and the construction-time value of field f
CallValue(f) == Get(input, f)
ConfigValue(f) == IF f \in OptionFields(tool) THEN Get(cfg, f) ELSE Undef

(***************************************************************************)
(* C1  Precedence.                                                         *)
(***************************************************************************)
\* the value precedence yields for field f, given which layers supplied it
Precedence(f, inCall, inConfig) ==
  IF inCall THEN CallValue(f)
  ELSE IF inConfig THEN ConfigValue(f)
  ELSE HardcodedDefault(tool, f)

SuppliedFor(f, v) ==
  /\ v # Undef
  /\ tool \in FetchTools =>
       /\ f \in ListFields => v # List(<<>>)
       /\ f \in {"startDate", "endDate", "instructions"} => v # Str("")

Available(v) == v # Undef /\ v # Str("")

\* C2: in the tools that post the request themselves, the bearer credential
\* is the construction-time apiKey when one was given, otherwise the value of
\* TAVILY_API_KEY; when neither is available the invocation fails with the
\* configuration error naming the API key and both ways to supply it, and
\* no request is sent.
C2_CredentialFallback ==
  /\ requests # <<>> =>
       requests[1].authorization =
         <<"Bearer ", IF Available(cfg.apiKey) THEN cfg.apiKey.str
                      ELSE env.str>>
  /\ (/\ tool \in FetchTools
      /\ pc \notin {"Idle", "Validated", "Rejected"}
      /\ ~Available(cfg.apiKey)
      /\ ~Available(env)) =>
       /\ pc = "Failed"
       /\ Contains(error, "Tavily API key")
       /\ Contains(error, "options")
       /\ Contains(error, "TAVILY_API_KEY environment variable")
       /\ requests = <<>>
       /\ requestBody = None

\* no key at either place: the call has failed without a request
C2_Witness ==
  /\ tool = "map"
  /\ cfg.apiKey = Str("")
  /\ env = Undef
  /\ pc = "Failed"
  /\ error = ConfigErrorMessage
  /\ requests = <<>>

(***************************************************************************)
(* C3  Omission of absent optionals.                                       *)
(***************************************************************************)
\* the internal fields of tool t that can reach the request body
PayloadFields(t) == (OptionFields(t) \cup InputFields(t)) \ {"apiKey"}

\* C3: a field that neither the call, nor the construction-time options,
\* nor a hardcoded default sets has no key in the request body, and no key
\* of the body carries undefined.
C3_OmissionOfAbsent ==
  Sent =>
    /\ \A f \in PayloadFields(tool) :
         (/\ CallValue(f) = Undef
          /\ ConfigValue(f) = Undef
          /\ HardcodedDefault(tool, f) = Undef) =>
           WireName(f) \notin DOMAIN SentBody
    /\ \A k \in DOMAIN SentBody : SentBody[k] # Undef

\* a crawl with no filter set anywhere was sent without any filter key
C3_Witness ==
  /\ tool = "crawl"
  /\ requests # <<>>
  /\ \A f \in ListFields : ConfigValue(f) = Undef
  /\ input.instructions = Str("blog posts")
  /\ DOMAIN SentBody \cap {"select_paths", "select_domains", "exclude_paths",
                           "exclude_domains", "allow_external"} = {}

(***************************************************************************)
(* C4  Empty-collection normalization.                                     *)
(***************************************************************************)
FilterKeys == {"include_domains", "exclude_domains", "select_paths",
               "select_domains", "exclude_paths"}

\* object o with field f taken away
Without(o, f) == [o EXCEPT ![f] = Undef]

\* C4: a layer that supplies the empty list for a filter field produces the
\* request body of the invocation in which that layer leaves the field out,
\* and no request body contains an empty filter list.
C4_EmptyListAsAbsent ==
  Sent =>
    /\ \A k \in FilterKeys \cap DOMAIN SentBody : SentBody[k] # List(<<>>)
    /\ \A f \in ListFields :
         /\ CallValue(f) = List(<<>>) =>
              SentBody = JsonBody(RequestBody(tool, cfg, Without(input, f)))
         /\ ConfigValue(f) = List(<<>>) =>
              SentBody = JsonBody(RequestBody(tool, Without(cfg, f), input))

\* a search whose call supplied excludeDomains: [] was sent
C4_Witness ==
  /\ tool = "search"
  /\ requests # <<>>
  /\ input.excludeDomains = List(<<>>)
  /\ "exclude_domains" \notin DOMAIN SentBody

(***************************************************************************)
(* C5  Renaming totality.                                                  *)
(***************************************************************************)
\* the field names of the remote API
WireFormatNames ==
  {"query", "url", "urls", "topic", "limit", "format", "timeout", "days",
   "country", "instructions", "search_depth", "max_results",
   "include_images", "include_answer", "include_image_descriptions",
   "include_raw_content", "include_domains", "exclude_domains", "time_range",
   "chunks_per_source", "start_date", "end_date", "auto_parameters",
   "max_tokens", "include_favicon", "extract_depth", "max_depth",
   "max_breadth", "select_paths", "select_domains", "exclude_paths",
   "allow_external"}

\* C5: every key of a request body is a wire-format name, none is an
\* internal camelCase name, and every key is the wire name of exactly one
\* internal field of the tool.
C5_RenamingTotality ==
  Sent =>
    /\ DOMAIN SentBody \subseteq WireFormatNames
    /\ DOMAIN SentBody \cap CamelCaseNames = {}
    /\ \A k \in DOMAIN SentBody :
         Cardinality({f \in PayloadFields(tool) : WireName(f) = k}) = 1

\* an extract request went out with extract_depth taken from the call
C5_Witness ==
  /\ tool = "extract"
  /\ requests # <<>>
  /\ input.extractDepth = Str("advanced")
  /\ SentBody.extract_depth = Str("advanced")
  /\ "include_images" \in DOMAIN SentBody

(***************************************************************************)
(* C6  API error classification.                                           *)
(***************************************************************************)
\* the current invocation received an HTTP response with a non-2xx status
NonSuccessResponse ==
  response # None /\ (response.status < 200 \/ response.status > 299)

StatusDigits(status) ==
  CASE status = 200 -> "200"
    [] status = 429 -> "429"
    [] status = 500 -> "500"

\* the keys and the texts of a parsed error document
DetailTexts(doc) ==
  DOMAIN doc
    \cup {doc[k].str : k \in {x \in DOMAIN doc : DOMAIN doc[x] = {"str"}}}
    \cup UNION {{doc[k].list[i] : i \in 1..Len(doc[k].list)} :
                  k \in {x \in DOMAIN doc : DOMAIN doc[x] = {"list"}}}

\* C6: a non-2xx response ends the invocation in failure whether or not its
\* body parses, and the message contains the numeric status and the parsed
\* error detail; status 429 with {"error": "rate limited"} gives a message
\* containing "429" and "rate limited".
C6_ApiErrorClassification ==
  NonSuccessResponse =>
    /\ pc = "Failed"
    /\ result = None
    /\ Contains(error, StatusDigits(response.status))
    /\ "json" \in DOMAIN response.body =>
         \A text \in DetailTexts(response.body.json) : Contains(error, text)
    /\ (/\ response.status = 429
        /\ response.body = [json |-> [error |-> Str("rate limited")]]) =>
         Contains(error, "429") /\ Contains(error, "rate limited")

\* the search tool was answered 429 {"error": "rate limited"}
C6_Witness ==
  /\ tool = "search"
  /\ response = [status |-> 429,
                 body |-> [json |-> [error |-> Str("rate limited")]]]
  /\ pc = "Failed"
  /\ Contains(error, "rate limited")

(***************************************************************************)
(* C7  Unparseable error body.                                             *)
(***************************************************************************)
\* C7: a non-2xx response whose body is not JSON still fails with a message
\* containing the status; the detail is the empty object and the parse
\* failure is not what the caller sees.
C7_UnparseableErrorBody ==
  (NonSuccessResponse /\ "json" \notin DOMAIN response.body) =>
    /\ pc = "Failed"
    /\ Contains(error, StatusDigits(response.status))
    /\ Contains(error, "Tavily API error: ")
    /\ \A i \in 1..Len(ParseErrorMessage) :
         ~Contains(error, ParseErrorMessage[i])
    /\ error[Len(error) - 1] = "{"
    /\ error[Len(error)] = "}"

\* the crawl tool was answered 500 with a body that is not JSON
C7_Witness ==
  /\ tool = "crawl"
  /\ response = [status |-> 500, body |-> Unparseable]
  /\ pc = "Failed"
  /\ Contains(error, "500")

(***************************************************************************)
(* C8  Verbatim success.                                                   *)
(***************************************************************************)
\* C8: a success status with a JSON body makes the invocation return
\* exactly the parsed body.
C8_VerbatimSuccess ==
  (/\ response # None
   /\ response.status >= 200 /\ response.status <= 299
   /\ "json" \in DOMAIN response.body) =>
    /\ pc = "Succeeded"
    /\ result = response.body.json
    /\ error = NoError

\* the extract tool returned the document of a 200 response
C8_Witness ==
  /\ tool = "extract"
  /\ response # None
  /\ response.status = 200
  /\ pc = "Succeeded"
  /\ result = [results |-> List(<<"https://tavily.com/blog">>)]

(***************************************************************************)
(* C9  Validation gate.                                                    *)
(***************************************************************************)
\* the JavaScript type each schema field declares
DeclaredType(f) ==
  CASE f \in ListFields \cup {"urls"} -> "list"
    [] f \in BoolFields -> "bool"
    [] f \in {"maxDepth", "maxBreadth", "limit", "chunksPerSource"} -> "num"
    [] OTHER -> "str"

MissingPrimary == input[Primary(tool)] = Undef

WrongType ==
  \E f \in DOMAIN input :
    input[f] # Undef /\ DOMAIN input[f] # {DeclaredType(f)}

DepthOutOfRange ==
  /\ "maxDepth" \in DOMAIN input
  /\ DOMAIN input.maxDepth = {"num"}
  /\ (input.maxDepth.num < 1 \/ input.maxDepth.num > 5)

\* C9: a call input with the required field missing, a field of the wrong
\* type, or a crawl/map maxDepth outside 1..5 (6, say) is rejected at the
\* validation stage: execute does not run, no request body is built and
\* nothing is sent.
C9_ValidationGate ==
  (input # None /\ (MissingPrimary \/ WrongType \/ DepthOutOfRange)) =>
    /\ pc = "Rejected"
    /\ effectiveApiKey = None
    /\ requestBody = None
    /\ requests = <<>>
    /\ clientCalls = <<>>
    /\ result = None

\* a map call with maxDepth 6 was rejected
C9_Witness ==
  /\ tool = "map"
  /\ input # None
  /\ input.maxDepth = Num(6)
  /\ pc = "Rejected"
  /\ requests = <<>>

(***************************************************************************)
(* C10  Domain and path restrictions.                                      *)
(***************************************************************************)
\* the developer configured a restriction for list field f
Restricted(f) == ConfigValue(f) # Undef /\ ConfigValue(f) # List(<<>>)

\* C10 as stated: whenever the developer configured a domain or path
\* restriction, the corresponding payload field is the developer's value,
\* whatever the call input.
C10_NoOverrideAsStated ==
  Dispatched =>
    \A f \in ListFields : Restricted(f) => Resolved(f) = ConfigValue(f)

\* C10 amended: the payload carries the developer's restriction unless the
\* field is in the tool's input schema (search: includeDomains and
\* excludeDomains) and the call supplies a non-empty list, which then
\* replaces the developer's list.
C10_DomainRestrictions ==
  Dispatched =>
    \A f \in ListFields :
      Restricted(f) =>
        IF /\ f \in OverridableFields(tool)
           /\ CallValue(f) # Undef
           /\ CallValue(f) # List(<<>>)
        THEN Resolved(f) = CallValue(f)
        ELSE Resolved(f) = ConfigValue(f)

\* a crawl restricted by the developer went out with the developer's list
C10_Witness ==
  /\ tool = "crawl"
  /\ requests # <<>>
  /\ cfg.excludeDomains = List(<<"docs.example">>)
  /\ input.instructions = Str("blog posts")
  /\ SentBody.exclude_domains = List(<<"docs.example">>)

(***************************************************************************)
(* C11  Developer-only fields.                                             *)
(***************************************************************************)
\* the fields of tool t that can reach the remote API but are not in the
\* tool's input schema
DeveloperOnlyFields(t) == PayloadFields(t) \ InputFields(t)

\* the call input stripped of every optional field
BareInput == [k \in DOMAIN input |-> IF k = Primary(tool) THEN input[k]
                                     ELSE Undef]

\* what the tool would hand over had the call been in: the options for the
\* client, or the JSON body of the request
HandedOverFor(in) ==
  IF tool \in CoreTools THEN CoreOptions(tool, cfg, in)
  ELSE JsonBody(RequestBody(tool, cfg, in))

\* the key of field f in what the tool hands over
HandOverKey(f) == IF tool \in CoreTools THEN f ELSE WireName(f)

\* the construction-time value of f is one the tools forward
Forwarded(f) ==
  /\ ConfigValue(f) # Undef
  /\ tool \in FetchTools =>
       /\ f \in ListFields => ConfigValue(f) # List(<<>>)
       /\ f \in {"includeRawContent", "country"} => Truthy(ConfigValue(f))

\* C11: a field that is not in the tool's input schema leaves the tool with
\* the construction-time value or its default, and with the same value the
\* tool hands over for any other call input.
C11_DeveloperOnlyIndependence ==
  Dispatched =>
    LET bare == HandedOverFor(BareInput)
    IN  \A f \in DeveloperOnlyFields(tool) :
          /\ Resolved(f) \in {ConfigValue(f), HardcodedDefault(tool, f)}
          /\ Forwarded(f) => Resolved(f) = ConfigValue(f)
          /\ Resolved(f) = Get(bare, HandOverKey(f))

\* a crawl whose call set maxDepth went out with the developer's maxBreadth
C11_Witness ==
  /\ tool = "crawl"
  /\ Sent
  /\ cfg.maxBreadth = Num(10)
  /\ input.maxDepth = Num(5)
  /\ SentBody.max_breadth = Num(10)
  /\ SentBody.max_depth = Num(5)

(***************************************************************************)
(* C12  Single attempt.                                                    *)
(***************************************************************************)
\* the fetch of the current invocation rejected
TransportFailed == error = Wrapped(tool, TransportErrorMessage)

\* C12: an invocation issues at most one request; after a transport failure
\* or a non-2xx response it has failed with that one request and nothing
\* more was sent.
C12_SingleAttempt ==
  /\ Len(requests) <= 1
  /\ Len(clientCalls) <= 1
  /\ (NonSuccessResponse \/ TransportFailed) =>
       /\ pc = "Failed"
       /\ Len(requests) = 1
       /\ result = None

\* a search whose fetch rejected has failed after its only request
C12_Witness ==
  /\ tool = "search"
  /\ TransportFailed
  /\ pc = "Failed"
  /\ Len(requests) = 1

(***************************************************************************)
(* C13  Invocation lifecycle.                                              *)
(***************************************************************************)
\* the steps execute takes, as pairs of positions; "Validated" is Idle with
\* execute entered, and a missing credential fails the invocation at once
LifecycleEdges ==
  {<<"Idle", "Validated">>, <<"Idle", "Rejected">>,
   <<"Validated", "CredentialResolved">>, <<"Validated", "Failed">>,
   <<"CredentialResolved", "PayloadBuilt">>,
   <<"PayloadBuilt", "RequestSent">>,
   <<"RequestSent", "Succeeded">>, <<"RequestSent", "Failed">>}

\* the position of a state in the order of the lifecycle
LifecycleRank(p) ==
  CASE p \in {"Idle", "Validated"} -> 0
    [] p = "CredentialResolved" -> 1
    [] p = "PayloadBuilt" -> 2
    [] p = "RequestSent" -> 3
    [] OTHER -> 4

\* what each position of the lifecycle has and has not done yet
LifecycleState ==
  /\ LifecycleRank(pc) < 1 => effectiveApiKey = None
  /\ LifecycleRank(pc) < 2 => requestBody = None
  /\ LifecycleRank(pc) < 3 => requests = <<>>
  /\ requestBody # None => Truthy(effectiveApiKey)
  /\ pc = "PayloadBuilt" => requestBody = RequestBody(tool, cfg, input)
  /\ requests # <<>> => requestBody # None
  /\ Sent => requests[1].body = JsonBody(requestBody)
  /\ error = ConfigErrorMessage => requestBody = None /\ requests = <<>>

\* a step either advances the lifecycle along its edges or, from a terminal
\* state, hands the outcome to the caller and ends the invocation
LifecycleStep ==
  IF pc \in Terminal
  THEN pc' = "Idle" /\ input' = None /\ requests' = <<>>
  ELSE /\ <<pc, pc'>> \in LifecycleEdges
       /\ pc' \notin {"Failed", "Rejected"} =>
            LifecycleRank(pc') = LifecycleRank(pc) +
                                 (IF pc = "Idle" THEN 0 ELSE 1)

FetchToolStep == tool \in FetchTools => LifecycleStep

\* C13: an invocation of a tool that posts its own request passes Idle,
\* CredentialResolved, PayloadBuilt, RequestSent in that order and ends in
\* Succeeded or Failed; the credential is checked before any payload exists,
\* the request carries the complete payload, no state is entered twice and
\* nothing but the end of the invocation follows Succeeded or Failed.
C13_Lifecycle ==
  /\ [](tool \in FetchTools => LifecycleState)
  /\ [][FetchToolStep]_vars

\* a map invocation went through every stage and succeeded
C13_Witness ==
  /\ tool = "map"
  /\ pc = "Succeeded"
  /\ Truthy(effectiveApiKey)
  /\ requestBody = RequestBody(tool, cfg, input)
  /\ Len(requests) = 1
  /\ requests[1].body = JsonBody(requestBody)

(***************************************************************************)
(* C14  Failure message content.                                           *)
(***************************************************************************)
\* the fetch of the current invocation rejected: a request went out, no
\* response came back and the invocation failed
FetchRejected == pc = "Failed" /\ requests # <<>> /\ response = None

\* the words that start every wrapped failure message of the tool
FailurePrefix == <<"Failed to ", Verb(tool), " with Tavily: ">>

SentWithin(k, lo, hi) ==
  /\ k \in DOMAIN SentBody
  /\ IsNum(SentBody[k])
  /\ SentBody[k].num >= lo
  /\ SentBody[k].num <= hi

\* C15: every crawl or map request that is sent carries a max_depth in 1..5
\* and a max_breadth in 1..100, whichever layer supplied the value.
C15_NumericBoundsOnWire ==
  (Sent /\ tool \in {"crawl", "map", "crawlAgent"}) =>
    /\ SentWithin("max_depth", MinDepth, MaxDepthAllowed)
    /\ SentWithin("max_breadth", MinBreadth, MaxBreadthAllowed)

(***************************************************************************)
(* C16  Documented defaults.                                               *)
(***************************************************************************)
\* the defaults the README documents, by tool kind and wire name
DocumentedDefaults(t) ==
  IF t = "search"
  THEN {<<"searchDepth", Str("basic")>>, <<"topic", Str("general")>>,
        <<"includeImages", Bool(FALSE)>>, <<"includeAnswer", Bool(FALSE)>>,
        <<"maxResults", Num(5)>>}
  ELSE IF Verb(t) \in {"crawl", "map"}
  THEN {<<"maxDepth", Num(1)>>, <<"maxBreadth", Num(20)>>,
        <<"limit", Num(50)>>}
  ELSE {}

\* C16: a field with a documented default that neither the call nor the
\* construction-time configuration sets is sent with that default: search
\* search_depth "basic", topic "general", include_images false,
\* include_answer false, max_results 5; crawl and map max_depth 1,
\* max_breadth 20, limit 50.
C16_DocumentedDefaults ==
  Sent =>
    \A d \in DocumentedDefaults(tool) :
      (CallValue(d[1]) = Undef /\ ConfigValue(d[1]) = Undef) =>
        /\ WireName(d[1]) \in DOMAIN SentBody
        /\ SentBody[WireName(d[1])] = d[2]

\* a search and a map with nothing configured went out with the defaults
C16_Witness ==
  /\ Sent
  /\ \A f \in OptionFields(tool) \ {"apiKey"} : ConfigValue(f) = Undef
  /\ \A f \in OverridableFields(tool) : CallValue(f) = Undef
  /\ \/ /\ tool = "search"
        /\ SentBody.search_depth = Str("basic")
        /\ SentBody.max_results = Num(5)
     \/ /\ tool = "map"
        /\ SentBody.max_depth = Num(1)
        /\ SentBody.max_breadth = Num(20)
        /\ SentBody.limit = Num(50)

(***************************************************************************)
(* C17  Crawl per-call overrides.                                          *)
(***************************************************************************)
\* what the developer passed to the constructor under key f
PassedOption(f) == Get(cfg, f)

\* C17: a crawl sends the instructions and allowExternal configured at
\* construction time when the call does not supply them, and the per-call
\* value when the call supplies one.
C17_CrawlOverrides ==
  (Dispatched /\ tool \in {"crawl", "crawlCore"}) =>
    \A f \in {"instructions", "allowExternal"} :
      IF SuppliedFor(f, CallValue(f)) THEN Resolved(f) = CallValue(f)
      ELSE SuppliedFor(f, PassedOption(f)) => Resolved(f) = PassedOption(f)

(***************************************************************************)
(* C18  Replace-if-present for the map instructions.                       *)
(***************************************************************************)
MapTools == {"map", "mapCore"}

\* C18 as stated: when the call and the configuration both provide
\* instructions, the map tool sends exactly the per-call string; when only
\* one layer provides it, that layer's string is sent.
C18_ReplaceAsStated ==
  (Dispatched /\ tool \in MapTools) =>
    LET c == CallValue("instructions")
        g == ConfigValue("instructions")
    IN  /\ c # Undef => Resolved("instructions") = c
        /\ (c = Undef /\ g # Undef) => Resolved("instructions") = g

\* C18 amended: the same with "provides" read as the tools read it.  The
\* map tool that posts the request itself takes only a non-empty string as
\* provided, so a per-call "" falls through to the construction-time string
\* and the key is omitted when that is empty or unset too; the map tool
\* built on the client hands a per-call "" over in place of the
\* construction-time string.
C18_ReplaceIfPresent ==
  (Dispatched /\ tool \in MapTools) =>
    LET c == CallValue("instructions")
        g == ConfigValue("instructions")
        sent == Resolved("instructions")
    IN  /\ SuppliedFor("instructions", c) => sent = c
        /\ (~SuppliedFor("instructions", c)
            /\ SuppliedFor("instructions", g)) => sent = g
        /\ (tool = "map" /\ c = Str("")) =>
             sent = (IF g \in {Undef, Str("")} THEN Undef ELSE g)
        /\ (tool = "mapCore" /\ c = Str("")) => sent = Str("")

\* both layers gave the map tool instructions and the per-call string went
\* out
C18_Witness ==
  /\ tool = "map"
  /\ Sent
  /\ cfg.instructions = Str("docs only")
  /\ input.instructions = Str("blog posts")
  /\ SentBody.instructions = Str("blog posts")

(***************************************************************************)
(* C19  Cancellation.                                                      *)
(***************************************************************************)
\* C19: when the framework cancels a pending tool call, the cancellation
\* reaches the pending HTTP request (the fetch was given the abort signal)
\* and the invocation does not end in Succeeded.
C19_Cancellation ==
  \A i \in CallIds :
    calls[i].cancelled =>
      /\ \A k \in 1..Len(calls[i].requests) :
           "signal" \in DOMAIN calls[i].requests[k]
      /\ calls[i].pc # "Succeeded"

(***************************************************************************)
(* C20  Independence of concurrent invocations.                            *)
(***************************************************************************)
\* what invocation c has handed over is what the tool hands over for its
\* input when it runs alone
PayloadAsAlone(c) ==
  /\ Len(c.requests) <= 1
  /\ Len(c.clientCalls) <= 1
  /\ c.requests # <<>> =>
       c.requests[1].body = JsonBody(RequestBody(tool, cfg, c.input))
  /\ c.clientCalls # <<>> =>
       c.clientCalls[1].options = CoreOptions(tool, cfg, c.input)

\* the outcome of invocation c is the one its own response yields
OutcomeAsAlone(c) ==
  c.response # None =>
    IF Ok(c.response.status) /\ ~JsonRejects(c.response.body)
    THEN c.pc = "Succeeded" /\ c.result = JsonOf(c.response.body)
                            /\ c.error = NoError
    ELSE /\ c.pc = "Failed"
         /\ c.result = None
         /\ c.error = IF Ok(c.response.status)
                      THEN Wrapped(tool, ParseErrorMessage)
                      ELSE ApiFailure(tool, c.response)

\* two invocations with the same input hand over the same payload, and
\* with the same response as well they end alike
SameAsEachOther(c, d) ==
  (c.pc # "Idle" /\ d.pc # "Idle" /\ c.input = d.input) =>
    /\ c.requests = d.requests
    /\ c.clientCalls = d.clientCalls
    /\ c.effectiveApiKey = d.effectiveApiKey
    /\ (c.response # None /\ c.response = d.response) =>
         c.pc = d.pc /\ c.result = d.result /\ c.error = d.error

\* a step belongs to one invocation and leaves the configuration, the
\* environment and every other invocation as they were
OwnStep ==
  /\ cfg' = cfg
  /\ env' = env
  /\ tool' = tool
  /\ \A i, j \in CallIds :
       (i # j /\ calls'[i] # calls[i]) => calls'[j] = calls[j]

\* C20: in every interleaving of several invocations each invocation builds
\* the payload and reaches the outcome it would when run alone with the
\* same configuration, input and response, and no step of an invocation
\* changes the configuration or anything another invocation holds.
C20_ConcurrentIndependence ==
  /\ [](\A i \in CallIds :
          /\ PayloadAsAlone(calls[i])
          /\ OutcomeAsAlone(calls[i])
          /\ \A j \in CallIds : SameAsEachOther(calls[i], calls[j]))
  /\ [][OwnStep]_vars

\* two crawls with different inputs are pending at once, each with its own
\* payload
C20_Witness ==
  /\ tool = "crawl"
  /\ calls[1].pc = "RequestSent"
  /\ calls[2].pc = "RequestSent"
  /\ calls[1].input.maxDepth = Num(5)
  /\ calls[2].input.maxDepth = Undef
  /\ calls[1].requests[1].body.max_depth = Num(5)
  /\ calls[2].requests[1].body.max_depth = Default(cfg.maxDepth, Num(1))

(***************************************************************************)
(* C21  Exactly one outcome.                                               *)
(***************************************************************************)
\* the steps execute takes by itself or on the arrival of what it awaits:
\* the synchronous code runs to the next await, and the awaited fetch (or
\* client call) resolves or rejects
ExecuteStep ==
  \/ ResolveCredential
  \/ BuildPayload
  \/ SendRequest
  \/ ReceiveResponse
  \/ TransportFailure
  \/ CallClient
  \/ ClientReturns
  \/ ClientThrows

\* whether an invocation ends depends on the options through the credential
\* alone: the tool is constructed with at most an apiKey or one other option
InitFair == Init /\ cfg \in ConcurrentConfigs(tool)

\* the one-at-a-time specification in which the remote call always returns a
\* response or fails and execute is never left waiting
SpecFair == InitFair /\ [][Next]_vars /\ WF_vars(ExecuteStep)

\* execute has returned a value, or has thrown
Ended == pc \in {"Succeeded", "Failed"}

\* a returned value and a thrown error exclude each other
OneOutcome ==
  /\ ~(result # None /\ error # NoError)
  /\ pc = "Succeeded" => result # None /\ error = NoError
  /\ pc = "Failed" => error # NoError /\ result = None
  /\ ~Ended => result = None

\* an outcome is final: nothing follows it but the end of the invocation
OutcomeFinal == Ended => pc' = "Idle"

\* C21: provided the remote call eventually returns a response or fails,
\* every invocation of execute eventually ends, and it ends in exactly one
\* of success (a value is returned, nothing is thrown) or failure (an error
\* is thrown, no result data is returned, not even a part of the response);
\* the outcome reached is never exchanged for the other.
C21_ExactlyOneOutcome ==
  /\ [](OneOutcome)
  /\ [][OutcomeFinal]_vars
  /\ (pc = "Validated") ~> Ended

\* a call failed although the service had answered with a JSON document:
\* nothing of the document is returned
C21_Witness ==
  /\ pc = "Failed"
  /\ response # None
  /\ ~JsonRejects(response.body)
  /\ "results" \in DOMAIN JsonOf(response.body)
  /\ result = None
  /\ error # NoError

(***************************************************************************)
(* C22  No coercion of unset booleans.                                     *)
(***************************************************************************)
\* the boolean fields of tool t that have no hardcoded default: search
\* includeFavicon, includeImageDescriptions, autoParameters; crawl
\* includeFavicon, allowExternal; map allowExternal; ...
UnsetBooleans(t) ==
  {f \in BoolFields \cap PayloadFields(t) : HardcodedDefault(t, f) = Undef}

\* C22: for every boolean field without a hardcoded default, the request
\* body has no key for the field when neither the call nor the
\* construction-time options set it, and the key carries false only when
\* the call or the options supplied false.
C22_NoCoercionOfUnsetBooleans ==
  Sent =>
    \A f \in UnsetBooleans(tool) :
      LET k == WireName(f)
      IN  /\ (CallValue(f) = Undef /\ ConfigValue(f) = Undef) =>
               k \notin DOMAIN SentBody
          /\ (k \in DOMAIN SentBody /\ SentBody[k] = Bool(FALSE)) =>
               (CallValue(f) = Bool(FALSE) \/ ConfigValue(f) = Bool(FALSE))

\* a search with none of its three default-less booleans set went out
\* without their keys, next to include_images: false from its default
C22_Witness ==
  /\ tool = "search"
  /\ Sent
  /\ UnsetBooleans(tool) =
       {"includeFavicon", "includeImageDescriptions", "autoParameters"}
  /\ \A f \in UnsetBooleans(tool) :
       CallValue(f) = Undef /\ ConfigValue(f) = Undef
  /\ DOMAIN SentBody \cap {"include_favicon", "include_image_descriptions",
                           "auto_parameters"} = {}
  /\ SentBody.include_images = Bool(FALSE)

(***************************************************************************)
(* C23  Explicit false wins.                                               *)
(***************************************************************************)
\* the boolean fields the agent may set per call: search includeImages and
\* includeFavicon, crawl and map allowExternal, ...
OverridableBooleans(t) == OverridableFields(t) \cap BoolFields

\* C23: a per-call false for an agent-overridable boolean field is a defined
\* value: it leaves the tool as false, also when the construction-time
\* options set the field to true.
C23_ExplicitFalseWins ==
  Dispatched =>
    \A f \in OverridableBooleans(tool) :
      CallValue(f) = Bool(FALSE) => Resolved(f) = Bool(FALSE)

\* a tool constructed with the field set to true, called with false, sent
\* false: search includeImages (??) or map allowExternal (!== undefined)
C23_Witness ==
  /\ Sent
  /\ \/ /\ tool = "search"
        /\ cfg.includeImages = Bool(TRUE)
        /\ input.includeImages = Bool(FALSE)
        /\ SentBody.include_images = Bool(FALSE)
     \/ /\ tool = "map"
        /\ cfg.allowExternal = Bool(TRUE)
        /\ input.allowExternal = Bool(FALSE)
        /\ SentBody.allow_external = Bool(FALSE)

(***************************************************************************)
(* C24  Unparseable success body.                                          *)
(***************************************************************************)
\* the current invocation received a 2xx response whose body is not JSON
UnparseableSuccess ==
  /\ response # None
  /\ Ok(response.status)
  /\ JsonRejects(response.body)

\* the results execute must not hand back for a body it could not parse
EmptyResults == {Undef, EmptyObj, Str(""), List(<<>>)}

\* C24: a success status with a body that cannot be parsed as JSON makes the
\* invocation fail with a message that starts with "Failed to <verb> with
\* Tavily: " and goes on with the message of the parse error; the
\* invocation does not succeed and returns nothing, not an empty, null or
\* undefined result either.
C24_UnparseableSuccessBody ==
  UnparseableSuccess =>
    /\ pc = "Failed"
    /\ result = None
    /\ result \notin EmptyResults
    /\ Len(error) > 3
    /\ SubSeq(error, 1, 3) = FailurePrefix
    /\ SubSeq(error, 4, Len(error)) = ParseErrorMessage
    /\ ~Contains(error, "Tavily API error: ")

\* the extract tool was answered 200 with a body that is not JSON and threw
C24_Witness ==
  /\ tool = "extract"
  /\ response = [status |-> 200, body |-> Unparseable]
  /\ pc = "Failed"
  /\ error = <<"Failed to ", "extract", " with Tavily: ">> \o ParseErrorMessage

(***************************************************************************)
(* C25  Empty strings.                                                     *)
(***************************************************************************)
\* the free-text fields, and those of them an agent may set per call
FreeTextFields == {"startDate", "endDate", "instructions", "country"}
OverridableTexts(t) == FreeTextFields \cap OverridableFields(t)

\* the value that falls through to the construction-time layer
FallThrough(f) ==
  IF ConfigValue(f) \in {Undef, Str("")} THEN Undef ELSE ConfigValue(f)

\* C25 as stated: no tool lets an empty string leave for start_date,
\* end_date, instructions or country; a per-call empty string for startDate,
\* endDate or instructions does not win over the construction-time value
\* but falls through to it, and the key is left out when the
\* construction-time value is empty or unset as well.
C25_EmptyStringsAsStated ==
  Dispatched =>
    /\ \A f \in FreeTextFields : Resolved(f) # Str("")
    /\ \A f \in OverridableTexts(tool) :
         CallValue(f) = Str("") => Resolved(f) = FallThrough(f)

\* C25 amended: the above holds for the tools that build the request body
\* themselves; the crawl and map tools built on the @tavily/core client
\* hand a per-call empty string for instructions to the client in place of
\* the construction-time value, and an empty construction-time string as it
\* is.
C25_EmptyStringsNotSupplied ==
  /\ Sent =>
       /\ \A f \in FreeTextFields : Get(SentBody, WireName(f)) # Str("")
       /\ \A f \in OverridableTexts(tool) :
            CallValue(f) = Str("") =>
              Get(SentBody, WireName(f)) = FallThrough(f)
  /\ (Dispatched /\ tool \in CoreTools) =>
       \A f \in OverridableTexts(tool) :
         /\ CallValue(f) = Str("") => Resolved(f) = Str("")
         /\ CallValue(f) = Undef => Resolved(f) = ConfigValue(f)

\* a search called with startDate "" sent the construction-time date, or a
\* map called with instructions "" and no construction-time instructions
\* sent no instructions at all
C25_Witness ==
  /\ Sent
  /\ \/ /\ tool = "search"
        /\ input.startDate = Str("")
        /\ cfg.startDate = Str("2024-01-01")
        /\ SentBody.start_date = Str("2024-01-01")
     \/ /\ tool = "map"
        /\ input.instructions = Str("")
        /\ cfg.instructions = Undef
        /\ "instructions" \notin DOMAIN SentBody

(***************************************************************************)
(* C26  Credential confinement.                                            *)
(***************************************************************************)
\* the names under which a request body could carry the credential
CredentialKeys == {"apiKey", "api_key", "Authorization", "authorization",
                   "TAVILY_API_KEY"}

\* the strings a value of the request body is made of
StringsOf(v) ==
  IF IsStr(v) THEN {v.str}
  ELSE IF IsList(v) THEN {v.list[i] : i \in 1..Len(v.list)}
  ELSE {}

\* the same options constructed with another key
WithOtherKey(c) == [c EXCEPT !.apiKey = Str("tvly-other")]

\* C26: in every request a tool posts, the resolved credential (the apiKey
\* option, else TAVILY_API_KEY) is in the Authorization header as
\* "Bearer <credential>" and nowhere else: the JSON body has no key for it,
\* none of its values is the credential, and the body is the one the same
\* call produces under any other credential.
C26_CredentialConfinement ==
  Sent =>
    /\ effectiveApiKey = OrElse(cfg.apiKey, env)
    /\ requests[1].authorization = <<"Bearer ", effectiveApiKey.str>>
    /\ DOMAIN SentBody \cap CredentialKeys = {}
    /\ \A k \in DOMAIN SentBody :
         effectiveApiKey.str \notin StringsOf(SentBody[k])
    /\ SentBody = JsonBody(RequestBody(tool, WithOtherKey(cfg), input))

\* a search constructed with a key of its own, in a process whose
\* environment holds another, posted the first in the header only
C26_Witness ==
  /\ tool = "search"
  /\ Sent
  /\ cfg.apiKey = Str("tvly-dev")
  /\ env = Str("tvly-env")
  /\ requests[1].authorization = <<"Bearer ", "tvly-dev">>
  /\ DOMAIN SentBody \cap CredentialKeys = {}

====
